---- MODULE Spec2Model ----
(***************************************************************************)
(* The four bundle scripts of the repository (combine_code, combine_native, *)
(* combine_script, bundle_widget_context) as one state machine.  A run      *)
(* picks a script and a file system, then executes the script step by step. *)
(*                                                                          *)
(* A Python string is a sequence of tokens.  The path separator and the dot *)
(* are tokens of their own, so split(os.sep), startswith('.'), splitext and *)
(* set membership of whole strings are computed as the code computes them.  *)
(***************************************************************************)
EXTENDS Integers, Sequences, FiniteSets, TLC

VARIABLES
    variant,          \* which script runs: "code", "native", "script", "bundle"
    fs,               \* the files that exist: relative path -> [bytes, perm]
    badRoots,         \* traversal roots that are missing or not a directory
    pc,               \* position of the script
    outCreated,       \* the output file has been opened with mode 'w'
    out,              \* what has been written to the output, one record per block
    console,          \* the lines printed, as [kind, path]
    file_count,
    total_size,
    rootsLeft,        \* combine_script: root_dirs still to walk
    stack,            \* os.walk: directories still to yield, in order
    curRoot,          \* os.walk: the directory of the current (root, dirs, files)
    curFiles,         \* the files of the current loop still to examine
    files_to_process, \* combine_native: the collected candidates
    cand,             \* file_path of the candidate being processed
    content,          \* the decoded text read from the candidate
    ret,              \* the loop the candidate's processing returns to
    exc,              \* an exception is propagating to the except clause
    openFiles,        \* input files currently open
    wfails,           \* output writes that have failed so far
    wfailed,          \* candidates whose block an output failure cut short
    visited,          \* files the loops have examined, in order
    descended         \* directories os.walk has listed

vars == <<variant, fs, badRoots, pc, outCreated, out, console, file_count,
          total_size, rootsLeft, stack, curRoot, curFiles, files_to_process,
          cand, content, ret, exc, openFiles, wfails, wfailed, visited, descended>>

----------------------------------------------------------------------------
(* Strings *)

SEP == "\\"
DOT == "."

RECURSIVE Split(_)
Split(s) ==
    IF \E i \in 1..Len(s) : s[i] = SEP
    THEN LET i == CHOOSE j \in 1..Len(s) :
                      s[j] = SEP /\ \A k \in 1..(j-1) : s[k] # SEP
         IN  <<SubSeq(s, 1, i-1)>> \o Split(SubSeq(s, i+1, Len(s)))
    ELSE <<s>>

StartsWithDot(s) == Len(s) > 0 /\ s[1] = DOT

Join(a, b) == IF a = <<>> THEN b ELSE a \o <<SEP>> \o b

RelPath(path, start) ==
    IF start # <<>> /\ Len(path) > Len(start) + 1
       /\ SubSeq(path, 1, Len(start) + 1) = start \o <<SEP>>
    THEN SubSeq(path, Len(start) + 2, Len(path))
    ELSE path

Basename(path) == LET parts == Split(path) IN parts[Len(parts)]

Dirname(path) ==
    LET n == Len(Basename(path))
    IN  IF Len(path) = n THEN <<>> ELSE SubSeq(path, 1, Len(path) - n - 1)

SplitExt(path) ==
    LET name == Basename(path)
        dots == {i \in 1..Len(name) :
                     name[i] = DOT /\ \E j \in 1..(i-1) : name[j] # DOT}
    IN  IF dots = {} THEN <<>>
        ELSE LET i == CHOOSE d \in dots : \A e \in dots : e <= d
             IN  SubSeq(name, i, Len(name))

ReplaceBackslash(s) == [i \in 1..Len(s) |-> IF s[i] = "\\" THEN "/" ELSE s[i]]

----------------------------------------------------------------------------
(* Configuration of the four scripts *)

ROOT_DIR == <<"e:", SEP, "Vive">>

OUTPUT_NAME ==
    [code   |-> <<"all_project_code", DOT, "txt">>,
     native |-> <<"all_native_code", DOT, "txt">>,
     script |-> <<"all_project_code", DOT, "txt">>,
     bundle |-> <<"widget_deep_dive_bundle", DOT, "txt">>]

INCLUDE_EXTENSIONS ==
    {<<DOT, "dart">>, <<DOT, "yaml">>,
     <<DOT, "java">>, <<DOT, "kt">>, <<DOT, "xml">>, <<DOT, "gradle">>,
     <<DOT, "properties">>,
     <<DOT, "h">>, <<DOT, "m">>, <<DOT, "swift">>, <<DOT, "plist">>,
     <<DOT, "xib">>, <<DOT, "storyboard">>,
     <<DOT, "json">>, <<DOT, "md">>}

INCLUDE_FILENAMES ==
    {<<"Podfile">>, <<"Gemfile">>, <<"AndroidManifest", DOT, "xml">>,
     <<"Info", DOT, "plist">>, <<"pubspec", DOT, "yaml">>,
     <<"build", DOT, "gradle">>}

EXCLUDE_DIRS ==
    {<<"build">>, <<DOT, "dart_tool">>, <<DOT, "git">>, <<DOT, "idea">>,
     <<DOT, "vscode">>, <<DOT, "gradle">>, <<"Pods">>,
     <<"Assets", DOT, "xcassets">>, <<"Runner", DOT, "xcodeproj">>,
     <<"Runner", DOT, "xcworkspace">>,
     <<"ios", "/", "Flutter">>, <<"android", "/", "app", "/", "build">>,
     <<"node_modules">>}

NATIVE_INCLUDE_EXTENSIONS ==
    {<<DOT, "java">>, <<DOT, "kt">>, <<DOT, "xml">>, <<DOT, "gradle">>,
     <<DOT, "properties">>,
     <<DOT, "h">>, <<DOT, "m">>, <<DOT, "swift">>, <<DOT, "plist">>,
     <<DOT, "xib">>, <<DOT, "storyboard">>}

NATIVE_INCLUDE_FILENAMES ==
    {<<"Podfile">>, <<"Gemfile">>, <<"AndroidManifest", DOT, "xml">>,
     <<"Info", DOT, "plist">>, <<"build", DOT, "gradle">>}

NATIVE_EXCLUDE_DIRS == EXCLUDE_DIRS \cup {<<"lib">>}

root_dirs == << <<"lib">>, <<"android">>, <<"ios">> >>

extensions ==
    {<<DOT, "dart">>, <<DOT, "kt">>, <<DOT, "java">>, <<DOT, "xml">>,
     <<DOT, "gradle">>, <<DOT, "swift">>, <<DOT, "h">>, <<DOT, "m">>,
     <<DOT, "plist">>, <<DOT, "yaml">>, <<DOT, "sh">>}

exclude_dirs ==
    {<<"build">>, <<DOT, "dart_tool">>, <<DOT, "idea">>, <<DOT, "gradle">>,
     <<"Pods">>, <<"node_modules">>}

specific_includes ==
    {<<"pubspec", DOT, "yaml">>,
     <<"ios", "/", "Runner", DOT, "xcodeproj", "/", "project", DOT, "pbxproj">>,
     <<"ios", "/", "Podfile">>}

TARGET_FILES ==
    << <<"lib", SEP, "core", SEP, "services", SEP,
         "widget_update_service", DOT, "dart">>,
       <<"ios", SEP, "VibeWidget", SEP, "VibeWidget", DOT, "swift">>,
       <<"ios", SEP, "VibeWidget", SEP, "PlayVibeIntent", DOT, "swift">>,
       <<"ios", SEP, "Runner", SEP, "Info", DOT, "plist">>,
       <<"ios", SEP, "Runner", SEP, "AudioManager", DOT, "swift">>,
       <<"android", SEP, "app", SEP, "src", SEP, "main", SEP, "res", SEP,
         "layout", SEP, "nock_widget_layout", DOT, "xml">>,
       <<"android", SEP, "app", SEP, "src", SEP, "main", SEP, "res", SEP,
         "layout", SEP, "squad_widget_layout", DOT, "xml">>,
       <<"android", SEP, "app", SEP, "src", SEP, "main", SEP, "kotlin", SEP,
         "com", SEP, "nock", SEP, "nock", SEP, "NockWidgetProvider", DOT, "kt">>,
       <<"android", SEP, "app", SEP, "src", SEP, "main", SEP, "kotlin", SEP,
         "com", SEP, "nock", SEP, "nock", SEP, "NockAudioService", DOT, "kt">>,
       <<"android", SEP, "app", SEP, "src", SEP, "main", SEP,
         "AndroidManifest", DOT, "xml">>,
       <<"android", SEP, "app", SEP, "build", DOT, "gradle">>,
       <<"ios", SEP, "Podfile">> >>

SIZE_CEILING == 1024 * 1024

\* The write calls that make up one block, in order.
BlockWrites ==
    [code   |-> <<"sep", "header", "sep", "content", "newline">>,
     native |-> <<"sep", "header", "sep", "content", "newline">>,
     bundle |-> <<"sep", "header", "sep", "content", "newline">>,
     script |-> <<"sep", "header", "sep", "content">>]

----------------------------------------------------------------------------
(* File contents.  The bytes of a file are runs [k, n]: n units of kind k.  *)
(* "ascii" is a one-byte character, "mb" a two-byte UTF-8 character and     *)
(* "bad" a byte that is not valid UTF-8.                                    *)

UnitBytes(k) == IF k = "mb" THEN 2 ELSE 1

RECURSIVE SumRuns(_, _)
SumRuns(runs, perUnit) ==
    IF runs = <<>> THEN 0
    ELSE (IF perUnit THEN runs[1].n * UnitBytes(runs[1].k) ELSE runs[1].n)
         + SumRuns(Tail(runs), perUnit)

\* os.path.getsize: the number of bytes
GetSize(bytes) == SumRuns(bytes, TRUE)

IsValidRun(r) == r.k # "bad"

\* A decoder that substitutes a placeholder for each undecodable byte, as
\* errors='replace' would.
DecodeReplace(bytes) ==
    [i \in 1..Len(bytes) |->
        IF bytes[i].k = "bad" THEN [k |-> "placeholder", n |-> bytes[i].n]
        ELSE bytes[i]]

\* open(..., encoding='utf-8', errors='ignore').read()
Decode(bytes) == SelectSeq(bytes, IsValidRun)

\* len(content): the number of characters
StrLen(text) == SumRuns(text, FALSE)

----------------------------------------------------------------------------
(* The file systems a run may start from *)

MaxWriteFailures == 1

Variants == {"code", "native", "script", "bundle"}

\* A project tree, in the order the file system enumerates it.
ProjectFiles ==
    << <<"a", DOT, "txt">>,
       <<"b", DOT, "dart">>,
       <<DOT, "e", DOT, "xml">>,
       <<"pubspec", DOT, "yaml">>,
       <<"build", SEP, "c", DOT, "kt">>,
       <<"android", SEP, "Main", DOT, "kt">>,
       <<"android", SEP, "build", SEP, "f", DOT, "kt">>,
       <<"android", SEP, DOT, "hidden", SEP, "d", DOT, "kt">>,
       <<"ios", SEP, "Podfile">>,
       <<"lib", SEP, "g", DOT, "kt">> >>

ProjectDirs ==
    << <<"build">>,
       <<"android">>,
       <<"android", SEP, "build">>,
       <<"android", SEP, DOT, "hidden">>,
       <<"ios">>,
       <<"lib">> >>

Range(s) == {s[i] : i \in 1..Len(s)}

Universe(v) == IF v = "bundle" THEN TARGET_FILES ELSE ProjectFiles

\* The roots whose validity a script depends on.
Roots(v) == IF v = "script" THEN Range(root_dirs) ELSE {ROOT_DIR}

SmallBytes == << [k |-> "ascii", n |-> 3] >>
BadBytes   == << [k |-> "ascii", n |-> 2], [k |-> "bad", n |-> 1],
                 [k |-> "ascii", n |-> 1] >>
CeilBytes  == << [k |-> "ascii", n |-> SIZE_CEILING - 2], [k |-> "mb", n |-> 1] >>
BigBytes   == << [k |-> "ascii", n |-> SIZE_CEILING + 1] >>

FileDefects == {"absent", "noaccess", "noopen", "noread", "big", "ceil", "bad"}
RootDefects == {"missing", "notdir"}

\* The file of exactly the ceiling that accompanies a file over the ceiling.
Companion(v, f, d) ==
    IF v = "bundle" \/ d # "big" THEN <<>>
    ELSE IF f # ProjectFiles[6] THEN ProjectFiles[6] ELSE ProjectFiles[9]

\* Nothing wrong, one file with a defect (a file over the ceiling comes with
\* its companion), or one invalid root.
Scenarios(v) ==
    {[f |-> <<>>, defect |-> "none", g |-> <<>>]}
    \cup {[f |-> f, defect |-> d, g |-> Companion(v, f, d)] :
              f \in Range(Universe(v)), d \in FileDefects}
    \cup {[f |-> r, defect |-> d, g |-> <<>>] :
              r \in Roots(v), d \in RootDefects}

IsPrefix(dir, path) ==
    dir = <<>> \/ (Len(path) > Len(dir) + 1
                   /\ SubSeq(path, 1, Len(dir) + 1) = dir \o <<SEP>>)

BytesFor(defect) ==
    CASE defect = "big"  -> BigBytes
      [] defect = "ceil" -> CeilBytes
      [] defect = "bad"  -> BadBytes
      [] OTHER           -> SmallBytes

PermFor(defect) ==
    IF defect \in {"noaccess", "noopen", "noread"} THEN defect ELSE "ok"

MakeFs(v, sc) ==
    LET gone(f) == \/ (sc.f = f /\ sc.defect = "absent")
                   \/ (sc.defect \in RootDefects
                       /\ (sc.f = ROOT_DIR \/ IsPrefix(sc.f, f)))
        present == {f \in Range(Universe(v)) : ~gone(f)}
    IN  [f \in present |->
            IF sc.f = f
            THEN [bytes |-> BytesFor(sc.defect), perm |-> PermFor(sc.defect)]
            ELSE IF sc.g = f
            THEN [bytes |-> CeilBytes, perm |-> "ok"]
            ELSE [bytes |-> SmallBytes, perm |-> "ok"]]

MakeBadRoots(sc) ==
    IF sc.defect \in RootDefects THEN (sc.f :> sc.defect) ELSE <<>>

Init ==
    \E v \in Variants : \E sc \in Scenarios(v) :
        /\ variant = v
        /\ fs = MakeFs(v, sc)
        /\ badRoots = MakeBadRoots(sc)
        /\ pc = IF v = "native" THEN "roots" ELSE "openout"
        /\ outCreated = FALSE
        /\ out = <<>>
        /\ console = <<>>
        /\ file_count = 0
        /\ total_size = 0
        /\ rootsLeft = IF v = "native" THEN <<ROOT_DIR>> ELSE <<>>
        /\ stack = <<>>
        /\ curRoot = <<>>
        /\ curFiles = <<>>
        /\ files_to_process = <<>>
        /\ cand = <<>>
        /\ content = <<>>
        /\ ret = "none"
        /\ exc = FALSE
        /\ openFiles = {}
        /\ wfails = 0
        /\ wfailed = {}
        /\ visited = <<>>
        /\ descended = {}

----------------------------------------------------------------------------
(* File system queries *)

\* The path of the file system entry a script's path string names, relative
\* to ROOT_DIR (or to the working directory, for combine_script).
Key(path) ==
    IF variant = "script" THEN path
    ELSE IF path = ROOT_DIR THEN <<>> ELSE RelPath(path, ROOT_DIR)

UnderBadRoot(k) ==
    \E r \in DOMAIN badRoots :
        IF variant = "script" THEN k = r \/ IsPrefix(r, k) ELSE TRUE

IsDir(path) ==
    LET k == Key(path)
    IN  /\ ~UnderBadRoot(k)
        /\ variant # "bundle"
        /\ k = <<>> \/ k \in Range(ProjectDirs)

\* os.path.isfile
IsFile(path) ==
    \/ Key(path) \in DOMAIN fs /\ fs[Key(path)].perm # "noaccess"
    \/ Key(path) \in DOMAIN badRoots /\ badRoots[Key(path)] = "notdir"

ExistsAlways(path) == TRUE

\* os.path.exists
Exists(path) == IsFile(path) \/ IsDir(path)

\* The names scandir reports in a directory, as os.walk splits them.
SubDirNames(path) ==
    LET here(d) == Dirname(d) = Key(path) /\ IsDir(Join(path, Basename(d)))
        ds == SelectSeq(ProjectDirs, here)
    IN  [i \in 1..Len(ds) |-> Basename(ds[i])]

FileNames(path) ==
    LET here(f) == f \in DOMAIN fs /\ Dirname(f) = Key(path)
        fl == SelectSeq(Universe(variant), here)
        notdirs == SelectSeq(root_dirs,
                      LAMBDA r : /\ variant = "script" /\ Key(path) = <<>>
                                 /\ r \in DOMAIN badRoots
                                 /\ badRoots[r] = "notdir")
    IN  [i \in 1..Len(fl) |-> Basename(fl[i])]
        \o notdirs
        \o (IF outCreated /\ Key(path) = <<>>
            THEN <<OUTPUT_NAME[variant]>> ELSE <<>>)

\* os.listdir(".")
ListDir(path) == SubDirNames(path) \o FileNames(path)

----------------------------------------------------------------------------
(* The filters *)

\* combine_code.is_excluded
is_excluded(path) ==
    \E i \in 1..Len(Split(path)) :
        LET part == Split(path)[i]
        IN  part \in EXCLUDE_DIRS \/ StartsWithDot(part)

\* combine_native.is_excluded
native_is_excluded(path, root_dir) ==
    LET rel_path == RelPath(path, root_dir)
        parts    == Split(rel_path)
    IN  \E i \in 1..Len(parts) :
            parts[i] \in NATIVE_EXCLUDE_DIRS \/ StartsWithDot(parts[i])

\* combine_script.should_process
should_process(file_path) ==
    LET rel_path == ReplaceBackslash(file_path)
        parts    == Split(file_path)
    IN  IF rel_path \in specific_includes THEN TRUE
        ELSE IF SplitExt(file_path) \notin extensions THEN FALSE
        ELSE ~ \E i \in 1..Len(parts) : parts[i] \in exclude_dirs

\* dirs[:] = [d for d in dirs if ...]
KeepDirCode(root, d) == ~is_excluded(Join(root, d)) /\ ~StartsWithDot(d)

KeepDirNative(root, d) == ~native_is_excluded(Join(root, d), ROOT_DIR)

KeepEveryDir(root, d) == TRUE

KeepDirScript(root, d) == d \notin exclude_dirs

PruneDirs(root, dirs) ==
    LET keep(d) == CASE variant = "code"   -> KeepDirCode(root, d)
                     [] variant = "native" -> KeepDirNative(root, d)
                     [] OTHER              -> KeepDirScript(root, d)
    IN  SelectSeq(dirs, keep)

IncludedByExtensionOnly(file) == SplitExt(file) \in INCLUDE_EXTENSIONS

\* ext in INCLUDE_EXTENSIONS or file in INCLUDE_FILENAMES
IncludedCode(file) ==
    SplitExt(file) \in INCLUDE_EXTENSIONS \/ file \in INCLUDE_FILENAMES

IncludedNative(file) ==
    SplitExt(file) \in NATIVE_INCLUDE_EXTENSIONS
    \/ file \in NATIVE_INCLUDE_FILENAMES


----------------------------------------------------------------------------
(* The steps of a run *)

Say(kind, path) == Append(console, [kind |-> kind, path |-> path])

TooLargeAtCeiling(size) == size >= SIZE_CEILING

\* os.path.getsize(file_path) > 1024 * 1024
TooLarge(size) == size > SIZE_CEILING

HandlerReraises(loop) == "crashed"

\* except Exception as e: print(...)   and the loop goes on
Handler(loop) == loop

CloseUnlessFailed(files, f, failed) == IF failed THEN files ELSE files \ {f}

\* the with statement closes infile however the block is left
CloseOnExit(files, f, failed) == files \ {f}

AddSizeInBytes(total, text) == total + GetSize(text)

\* total_size += len(content)
AddSize(total, text) == total + StrLen(text)

\* with open(OUTPUT_FILE, 'w', encoding='utf-8') as outfile
OpenOutput ==
    /\ pc = "openout"
    /\ IF variant # "script" /\ ROOT_DIR \in DOMAIN badRoots
       THEN /\ pc' = "crashed"
            /\ UNCHANGED <<outCreated, rootsLeft, curFiles, ret>>
       ELSE /\ outCreated' = TRUE
            /\ CASE variant = "code" ->
                      /\ rootsLeft' = <<ROOT_DIR>>
                      /\ pc' = "roots"
                      /\ UNCHANGED <<curFiles, ret>>
                 [] variant = "script" ->
                      /\ rootsLeft' = root_dirs
                      /\ pc' = "roots"
                      /\ UNCHANGED <<curFiles, ret>>
                 [] variant = "native" ->
                      /\ curFiles' = files_to_process
                      /\ pc' = "process"
                      /\ ret' = "process"
                      /\ UNCHANGED rootsLeft
                 [] OTHER ->
                      /\ curFiles' = TARGET_FILES
                      /\ pc' = "target"
                      /\ ret' = "target"
                      /\ UNCHANGED rootsLeft
    /\ UNCHANGED <<variant, fs, badRoots, out, console, file_count, total_size,
                   stack, curRoot, files_to_process, cand, content, exc,
                   openFiles, wfails, wfailed, visited, descended>>

\* for root_dir in root_dirs: os.walk(root_dir)   (one root in combine_code
\* and combine_native)
NextRoot ==
    /\ pc = "roots"
    /\ IF rootsLeft = <<>>
       THEN /\ pc' = CASE variant = "code"   -> "summary"
                       [] variant = "native" -> "openout"
                       [] OTHER              -> "listdir"
            /\ UNCHANGED <<stack, rootsLeft>>
       ELSE /\ stack' = <<Head(rootsLeft)>>
            /\ rootsLeft' = Tail(rootsLeft)
            /\ pc' = "walk"
    /\ UNCHANGED <<variant, fs, badRoots, outCreated, out, console, file_count,
                   total_size, curRoot, curFiles, files_to_process, cand,
                   content, ret, exc, openFiles, wfails, wfailed, visited,
                   descended>>

\* os.walk yields the next (root, dirs, files); the loop body prunes dirs in
\* place and os.walk later descends into what is left of dirs, in order.
WalkNext ==
    /\ pc = "walk"
    /\ IF stack = <<>>
       THEN /\ pc' = "roots"
            /\ UNCHANGED <<stack, curRoot, curFiles, descended, ret>>
       ELSE LET top == Head(stack) IN
            IF ~IsDir(top)
            THEN /\ stack' = Tail(stack)
                 /\ pc' = "walk"
                 /\ UNCHANGED <<curRoot, curFiles, descended, ret>>
            ELSE LET kept == PruneDirs(top, SubDirNames(top)) IN
                 /\ curRoot' = top
                 /\ descended' = descended \cup {top}
                 /\ stack' = [i \in 1..Len(kept) |-> Join(top, kept[i])]
                             \o Tail(stack)
                 /\ curFiles' = FileNames(top)
                 /\ ret' = "file"
                 /\ pc' = "file"
    /\ UNCHANGED <<variant, fs, badRoots, outCreated, out, console, file_count,
                   total_size, rootsLeft, files_to_process, cand, content, exc,
                   openFiles, wfails, wfailed, visited>>

\* for file in files: the checks up to the try statement
WalkFile ==
    /\ pc = "file"
    /\ IF curFiles = <<>>
       THEN /\ pc' = "walk"
            /\ UNCHANGED <<curFiles, cand, files_to_process, visited>>
       ELSE LET file      == Head(curFiles)
                file_path == Join(curRoot, file)
            IN  /\ curFiles' = Tail(curFiles)
                /\ visited' = Append(visited, file_path)
                /\ CASE variant = "code" ->
                          IF ~is_excluded(file_path) /\ IncludedCode(file)
                          THEN /\ cand' = file_path
                               /\ pc' = "getsize"
                               /\ UNCHANGED files_to_process
                          ELSE UNCHANGED <<pc, cand, files_to_process>>
                     [] variant = "native" ->
                          /\ files_to_process' =
                                 IF IncludedNative(file)
                                 THEN Append(files_to_process, file_path)
                                 ELSE files_to_process
                          /\ UNCHANGED <<pc, cand>>
                     [] OTHER ->
                          IF should_process(file_path)
                          THEN /\ cand' = file_path
                               /\ pc' = "open"
                               /\ UNCHANGED files_to_process
                          ELSE UNCHANGED <<pc, cand, files_to_process>>
    /\ UNCHANGED <<variant, fs, badRoots, outCreated, out, console, file_count,
                   total_size, rootsLeft, stack, curRoot, content, ret, exc,
                   openFiles, wfails, wfailed, descended>>

\* combine_native: for file_path in files_to_process
NextCollected ==
    /\ pc = "process"
    /\ IF curFiles = <<>>
       THEN /\ pc' = "summary"
            /\ UNCHANGED <<curFiles, cand>>
       ELSE /\ cand' = Head(curFiles)
            /\ curFiles' = Tail(curFiles)
            /\ pc' = "getsize"
    /\ UNCHANGED <<variant, fs, badRoots, outCreated, out, console, file_count,
                   total_size, rootsLeft, stack, curRoot, files_to_process,
                   content, ret, exc, openFiles, wfails, wfailed, visited,
                   descended>>

\* bundle_widget_context: for rel_path in TARGET_FILES
NextTarget ==
    /\ pc = "target"
    /\ IF curFiles = <<>>
       THEN /\ pc' = "summary"
            /\ UNCHANGED <<curFiles, cand, console, visited>>
       ELSE LET rel_path  == Head(curFiles)
                file_path == Join(ROOT_DIR, rel_path)
            IN  /\ curFiles' = Tail(curFiles)
                /\ visited' = Append(visited, file_path)
                /\ IF Exists(file_path)
                   THEN /\ cand' = file_path
                        /\ pc' = "open"
                        /\ UNCHANGED console
                   ELSE /\ console' = Say("notfound", rel_path)
                        /\ UNCHANGED <<pc, cand>>
    /\ UNCHANGED <<variant, fs, badRoots, outCreated, out, file_count,
                   total_size, rootsLeft, stack, curRoot, files_to_process,
                   content, ret, exc, openFiles, wfails, wfailed, descended>>

\* combine_script: root_files = os.listdir(".")
ListRoot ==
    /\ pc = "listdir"
    /\ curFiles' = ListDir(<<>>)
    /\ curRoot' = <<>>
    /\ ret' = "rootfile"
    /\ pc' = "rootfile"
    /\ UNCHANGED <<variant, fs, badRoots, outCreated, out, console, file_count,
                   total_size, rootsLeft, stack, files_to_process, cand,
                   content, exc, openFiles, wfails, wfailed, visited,
                   descended>>

\* combine_script: for file in root_files
NextRootFile ==
    /\ pc = "rootfile"
    /\ IF curFiles = <<>>
       THEN /\ pc' = "summary"
            /\ UNCHANGED <<curFiles, cand, visited>>
       ELSE LET file == Head(curFiles) IN
            /\ curFiles' = Tail(curFiles)
            /\ visited' = Append(visited, file)
            /\ IF /\ file # OUTPUT_NAME["script"]
                  /\ \/ file \in specific_includes
                     \/ (IsFile(file) /\ should_process(file))
               THEN /\ cand' = file
                    /\ pc' = "open"
               ELSE UNCHANGED <<pc, cand>>
    /\ UNCHANGED <<variant, fs, badRoots, outCreated, out, console, file_count,
                   total_size, rootsLeft, stack, curRoot, files_to_process,
                   content, ret, exc, openFiles, wfails, wfailed, descended>>


\* if os.path.getsize(file_path) > 1024 * 1024: print(...); continue
GetSizeStep ==
    /\ pc = "getsize"
    /\ LET k == Key(cand) IN
       IF k \notin DOMAIN fs \/ fs[k].perm = "noaccess"
       THEN /\ console' = Say("error", k)
            /\ pc' = Handler(ret)
       ELSE IF TooLarge(GetSize(fs[k].bytes))
       THEN /\ console' = Say("large", k)
            /\ pc' = ret
       ELSE /\ pc' = "open"
            /\ UNCHANGED console
    /\ UNCHANGED <<variant, fs, badRoots, outCreated, out, file_count,
                   total_size, rootsLeft, stack, curRoot, curFiles,
                   files_to_process, cand, content, ret, exc, openFiles,
                   wfails, wfailed, visited, descended>>

\* with open(file_path, 'r', encoding='utf-8', errors='ignore') as infile
OpenInput ==
    /\ pc = "open"
    /\ LET k == Key(cand) IN
       IF k \notin DOMAIN fs \/ fs[k].perm \in {"noaccess", "noopen"}
       THEN /\ console' = Say("error", k)
            /\ pc' = Handler(ret)
            /\ UNCHANGED openFiles
       ELSE /\ openFiles' = openFiles \cup {cand}
            /\ pc' = "read"
            /\ UNCHANGED console
    /\ UNCHANGED <<variant, fs, badRoots, outCreated, out, file_count,
                   total_size, rootsLeft, stack, curRoot, curFiles,
                   files_to_process, cand, content, ret, exc, wfails, wfailed,
                   visited, descended>>

\* content = infile.read()
ReadInput ==
    /\ pc = "read"
    /\ IF fs[Key(cand)].perm = "noread"
       THEN /\ exc' = TRUE
            /\ pc' = "exit"
            /\ UNCHANGED content
       ELSE /\ content' = Decode(fs[Key(cand)].bytes)
            /\ pc' = "write"
            /\ UNCHANGED exc
    /\ UNCHANGED <<variant, fs, badRoots, outCreated, out, console, file_count,
                   total_size, rootsLeft, stack, curRoot, curFiles,
                   files_to_process, cand, ret, openFiles, wfails, wfailed,
                   visited, descended>>

\* The part of a block that `done` successful write calls leave in the output.
Block(path, text, done) ==
    [path  |-> path,
     parts |-> done,
     text  |-> IF done >= 4 THEN text ELSE <<>>]

HasCounters == variant # "script"

\* Where a failing write call is placed: at the first call of the block, so
\* that nothing of the block is written, or at the call that writes the
\* content, so that the header is written and the content is not.
FailurePoints == {0, 3}

\* The outfile.write calls of one block, then the counters and the progress
\* line.  A write call may raise; the calls after it are not made.
WriteBlock ==
    /\ pc = "write"
    /\ \E done \in FailurePoints \cup {Len(BlockWrites[variant])} :
         /\ done < Len(BlockWrites[variant]) => wfails < MaxWriteFailures
         /\ out' = IF done = 0 THEN out
                   ELSE Append(out, Block(Key(cand), content, done))
         /\ IF done = Len(BlockWrites[variant])
            THEN /\ file_count' = IF HasCounters THEN file_count + 1
                                  ELSE file_count
                 /\ total_size' = IF HasCounters /\ variant # "bundle"
                                  THEN AddSize(total_size, content)
                                  ELSE total_size
                 /\ console' = Say("added", Key(cand))
                 /\ UNCHANGED <<exc, wfails, wfailed>>
            ELSE /\ exc' = TRUE
                 /\ wfails' = wfails + 1
                 /\ wfailed' = wfailed \cup {Key(cand)}
                 /\ UNCHANGED <<file_count, total_size, console>>
    /\ pc' = "exit"
    /\ UNCHANGED <<variant, fs, badRoots, outCreated, rootsLeft, stack,
                   curRoot, curFiles, files_to_process, cand, content, ret,
                   openFiles, visited, descended>>

\* Leaving the with block closes infile; a pending exception then reaches
\* `except Exception as e`, which prints it.
ExitWith ==
    /\ pc = "exit"
    /\ openFiles' = CloseOnExit(openFiles, cand, exc)
    /\ console' = IF exc THEN Say("error", Key(cand)) ELSE console
    /\ exc' = FALSE
    /\ pc' = IF exc THEN Handler(ret) ELSE ret
    /\ UNCHANGED <<variant, fs, badRoots, outCreated, out, file_count,
                   total_size, rootsLeft, stack, curRoot, curFiles,
                   files_to_process, cand, content, ret, wfails, wfailed,
                   visited, descended>>

\* The output is closed and the final lines are printed.
Summary ==
    /\ pc = "summary"
    /\ console' = Say("summary", <<>>)
    /\ pc' = "done"
    /\ UNCHANGED <<variant, fs, badRoots, outCreated, out, file_count,
                   total_size, rootsLeft, stack, curRoot, curFiles,
                   files_to_process, cand, content, ret, exc, openFiles,
                   wfails, wfailed, visited, descended>>

Next ==
    \/ OpenOutput
    \/ NextRoot
    \/ WalkNext
    \/ WalkFile
    \/ NextCollected
    \/ NextTarget
    \/ ListRoot
    \/ NextRootFile
    \/ GetSizeStep
    \/ OpenInput
    \/ ReadInput
    \/ WriteBlock
    \/ ExitWith
    \/ Summary

Spec == Init /\ [][Next]_vars


----------------------------------------------------------------------------
(* Vocabulary of the properties *)

Traversing == {"code", "native", "script"}

AllowedExtensions ==
    CASE variant = "code"   -> INCLUDE_EXTENSIONS
      [] variant = "native" -> NATIVE_INCLUDE_EXTENSIONS
      [] OTHER              -> extensions

AllowedFilenames ==
    CASE variant = "code"   -> INCLUDE_FILENAMES
      [] variant = "native" -> NATIVE_INCLUDE_FILENAMES
      [] OTHER              -> specific_includes

ExclusionSet ==
    CASE variant = "code"   -> EXCLUDE_DIRS
      [] variant = "native" -> NATIVE_EXCLUDE_DIRS
      [] OTHER              -> exclude_dirs

\* The directory names on the way from the root to the entry k.
DirSegments(k) == IF Dirname(k) = <<>> THEN {} ELSE Range(Split(Dirname(k)))

\* The directory names of a directory path, its own name included.
OwnSegments(k) == IF k = <<>> THEN {} ELSE Range(Split(k))

UnderExcluded(k) == DirSegments(k) \cap ExclusionSet # {}

UnderDotDir(k) == \E seg \in DirSegments(k) : StartsWithDot(seg)

\* The file lies where the script looks at all: combine_script walks lib,
\* android and ios and lists the working directory.
InScope(k) ==
    variant = "script" =>
        \/ Dirname(k) = <<>>
        \/ \E r \in Range(root_dirs) : IsPrefix(r, k)

MatchesPolicy(k) ==
    SplitExt(k) \in AllowedExtensions \/ Basename(k) \in AllowedFilenames

HasCeiling == variant \in {"code", "native"}

Oversized(k) == HasCeiling /\ GetSize(fs[k].bytes) > SIZE_CEILING

Complete(b) == b.parts = Len(BlockWrites[variant])

\* The FILE blocks of the output, and the paths they name.
Blocks == SelectSeq(out, Complete)

BlockPaths == [i \in 1..Len(Blocks) |-> Blocks[i].path]

Written == {out[i].path : i \in 1..Len(out)}

VisitedKeys == [i \in 1..Len(visited) |-> Key(visited[i])]

Printed(kind, k) == \E i \in 1..Len(console) : console[i] = [kind |-> kind, path |-> k]

RECURSIVE IsSubsequence(_, _)
IsSubsequence(a, b) ==
    IF a = <<>> THEN TRUE
    ELSE IF b = <<>> THEN FALSE
    ELSE IF a[1] = b[1] THEN IsSubsequence(Tail(a), Tail(b))
    ELSE IsSubsequence(a, Tail(b))

Occurrences(seq, x) == Cardinality({i \in 1..Len(seq) : seq[i] = x})

----------------------------------------------------------------------------
(* C1: in combine_code, combine_native and combine_script the walk never    *)
(* descends into a directory whose name is in the script's exclusion set,   *)
(* and no file under such a directory has any part of a FILE block in the   *)
(* output, whatever its extension or name.                                  *)
C1_ExcludedDirsPruned ==
    variant \in Traversing =>
        /\ \A d \in descended : OwnSegments(Key(d)) \cap ExclusionSet = {}
        /\ \A k \in Written : ~UnderExcluded(k)

\* The run has finished over a tree that holds a matching file under an
\* excluded directory, and has written blocks for other files.
C1_Witness ==
    /\ pc = "done"
    /\ variant \in Traversing
    /\ out # <<>>
    /\ \E k \in DOMAIN fs :
          InScope(k) /\ UnderExcluded(k) /\ MatchesPolicy(k) /\ k \notin Written

(* C3: in combine_code, combine_native and combine_script no file with a    *)
(* dot-prefixed directory between the root and itself has any part of a     *)
(* FILE block in the output, and the walk never lists such a directory.     *)
C3_DotDirsPruned ==
    variant \in Traversing =>
        /\ \A d \in descended :
              \A seg \in OwnSegments(Key(d)) : ~StartsWithDot(seg)
        /\ \A k \in Written : ~UnderDotDir(k)

(* C7: when a traversal root is missing or not a directory, the output file *)
(* is never created or truncated and the run never completes normally.      *)
C7_InvalidRootFailsBeforeOutput ==
    DOMAIN badRoots # {} => ~outCreated /\ pc # "done"


----------------------------------------------------------------------------
\* A file the inclusion claim speaks about: it matches the policy, lies under
\* no pruned directory, can be read, is not over the ceiling, and the output
\* accepted its block.
Eligible(k) ==
    /\ InScope(k)
    /\ MatchesPolicy(k)
    /\ ~UnderExcluded(k) /\ ~UnderDotDir(k)
    /\ fs[k].perm = "ok"
    /\ ~Oversized(k)
    /\ k \notin wfailed

(* C2 as stated: at the end of a traversing run every matching, unpruned,   *)
(* readable file within the ceiling has exactly one FILE block, and the     *)
(* blocks are in the order the files were visited.                          *)
C2_EveryMatchingFileOnce ==
    (pc = "done" /\ variant \in Traversing) =>
        /\ \A k \in DOMAIN fs : Eligible(k) => Occurrences(BlockPaths, k) = 1
        /\ IsSubsequence(BlockPaths, VisitedKeys)

(* C2 as amended: the same, except that combine_code also skips a file      *)
(* whose own name starts with a dot.                                        *)
C2_EveryMatchingFileOnceAmended ==
    (pc = "done" /\ variant \in Traversing) =>
        /\ \A k \in DOMAIN fs :
              (Eligible(k) /\ (variant = "code" => ~StartsWithDot(Basename(k))))
                  => Occurrences(BlockPaths, k) = 1
        /\ \A k \in Range(BlockPaths) : Occurrences(BlockPaths, k) = 1
        /\ IsSubsequence(BlockPaths, VisitedKeys)

\* A finished run that wrote several blocks, one of them for a file matched
\* by name only, over a tree that also holds a dot-named matching file.
C2_Witness ==
    /\ pc = "done"
    /\ variant = "code"
    /\ Len(Blocks) >= 3
    /\ \E k \in Range(BlockPaths) : SplitExt(k) \notin AllowedExtensions
    /\ \E k \in DOMAIN fs : Eligible(k) /\ StartsWithDot(Basename(k))

(* C4: in combine_code and combine_native a matching file larger than       *)
(* 1048576 bytes is never opened, read or written and leaves the counters   *)
(* alone; a readable matching file of exactly 1048576 bytes gets a complete *)
(* FILE block.                                                              *)
C4_SizeCeiling ==
    HasCeiling =>
        /\ \A f \in openFiles : ~Oversized(Key(f))
        /\ pc \in {"open", "read", "write", "exit"} => ~Oversized(Key(cand))
        /\ \A k \in Written : ~Oversized(k)
        /\ \A k \in DOMAIN fs : Oversized(k) => ~Printed("added", k)
        /\ pc = "done" =>
              \A k \in DOMAIN fs :
                  (Eligible(k)
                   /\ (variant = "code" => ~StartsWithDot(Basename(k)))
                   /\ GetSize(fs[k].bytes) = SIZE_CEILING)
                      => \E i \in 1..Len(out) :
                            /\ out[i].path = k
                            /\ Complete(out[i])
                            /\ out[i].text # <<>>

\* A finished run that met a matching file over the ceiling, reported it, and
\* wrote the block of a file of exactly the ceiling.
C4_Witness ==
    /\ pc = "done"
    /\ HasCeiling
    /\ \E k \in DOMAIN fs :
          MatchesPolicy(k) /\ Oversized(k) /\ Printed("large", k)
    /\ \E i \in 1..Len(out) :
          /\ GetSize(fs[out[i].path].bytes) = SIZE_CEILING
          /\ Complete(out[i])


----------------------------------------------------------------------------
\* The candidate's own size query, open or read fails.  Where a script asks
\* os.path.exists or os.path.isfile first (the listed paths of
\* bundle_widget_context, the working-directory entries of combine_script),
\* an entry that cannot be examined at all is not a candidate.
Failing(k) ==
    \/ fs[k].perm \in {"noopen", "noread"}
    \/ /\ fs[k].perm = "noaccess"
       /\ variant # "bundle"
       /\ variant = "script" =>
              Dirname(k) # <<>> \/ ReplaceBackslash(k) \in specific_includes

\* The files the loops handed to the try statement, in order.
Selected(k) == Printed("added", k) \/ Printed("error", k) \/ Printed("large", k)

Survivors ==
    SelectSeq(VisitedKeys,
              LAMBDA k : /\ k \in DOMAIN fs
                         /\ Selected(k)
                         /\ ~Failing(k) /\ ~Oversized(k) /\ k \notin wfailed)

(* C5: a candidate whose size query, open or read fails is reported, leaves *)
(* no part of a FILE block in the output, and does not stop the run: only   *)
(* an invalid root, before any candidate is examined, ends a run without    *)
(* its summary, and at the end the FILE blocks are those of the other       *)
(* candidates, in order, followed by the summary.                           *)
C5_FailingFileSkipped ==
    /\ \A k \in Written : k \in DOMAIN fs /\ ~Failing(k)
    /\ pc = "crashed" => DOMAIN badRoots # {} /\ console = <<>>
    /\ pc = "done" =>
          /\ \A k \in DOMAIN fs :
                (Failing(k) /\ k \in Range(VisitedKeys) /\ InScope(k)
                 /\ MatchesPolicy(k) /\ ~UnderExcluded(k) /\ ~UnderDotDir(k)
                 /\ (variant = "code" => ~StartsWithDot(Basename(k))))
                    => Printed("error", k)
          /\ BlockPaths = Survivors
          /\ console[Len(console)].kind = "summary"

\* A finished run in which a failing candidate was reported between two
\* candidates whose blocks were written.
C5_Witness ==
    /\ pc = "done"
    /\ \E i, j, l \in 1..Len(console) :
          /\ i < j /\ j < l
          /\ console[i].kind = "added"
          /\ console[j].kind = "error" /\ Failing(console[j].path)
          /\ console[l].kind = "added"

(* C6: in bundle_widget_context the FILE blocks are exactly the entries of  *)
(* TARGET_FILES that exist and can be read, in list order; a missing entry  *)
(* is reported as not found, leaves nothing in the output and no change in  *)
(* file_count, and the run goes on to the next entry.                       *)
C6_ExplicitListOrder ==
    variant = "bundle" =>
        /\ \A i \in 1..Len(TARGET_FILES) :
              (TARGET_FILES[i] \notin DOMAIN fs
               /\ TARGET_FILES[i] \in Range(VisitedKeys))
                  => /\ Printed("notfound", TARGET_FILES[i])
                     /\ TARGET_FILES[i] \notin Written
                     /\ ~Printed("added", TARGET_FILES[i])
        /\ file_count = Len(Blocks)
        /\ pc = "done" =>
              BlockPaths =
                  SelectSeq(TARGET_FILES,
                            LAMBDA t : /\ t \in DOMAIN fs
                                       /\ fs[t].perm = "ok"
                                       /\ t \notin wfailed)

\* A finished run over a list with a missing entry in the middle: blocks were
\* written for entries before and after it.
C6_Witness ==
    /\ pc = "done"
    /\ variant = "bundle"
    /\ \E i \in 2..(Len(TARGET_FILES) - 1) :
          /\ TARGET_FILES[i] \notin DOMAIN fs
          /\ TARGET_FILES[i-1] \in Range(BlockPaths)
          /\ TARGET_FILES[i+1] \in Range(BlockPaths)


----------------------------------------------------------------------------
\* The number of characters of a decoded text, counted run by run.
RECURSIVE CharCount(_)
CharCount(text) ==
    IF text = <<>> THEN 0 ELSE text[1].n + CharCount(Tail(text))

RECURSIVE TotalChars(_)
TotalChars(blocks) ==
    IF blocks = <<>> THEN 0
    ELSE CharCount(blocks[1].text) + TotalChars(Tail(blocks))

(* C8: in combine_code, combine_native and bundle_widget_context file_count *)
(* is the number of FILE blocks completely written so far, and in           *)
(* combine_code and combine_native total_size is the sum of the lengths of  *)
(* the decoded contents of exactly those blocks; a file that was skipped,   *)
(* missing, oversized or failing is in neither.                             *)
C8_CountersMatchBlocks ==
    variant # "script" =>
        /\ file_count = Len(Blocks)
        /\ HasCeiling => total_size = TotalChars(Blocks)
        /\ \A b \in Range(Blocks) :
              /\ b.path \in DOMAIN fs
              /\ fs[b.path].perm = "ok"
              /\ ~Oversized(b.path)

\* A finished run that counted a file whose decoded length differs from its
\* size in bytes, and that also met a file it did not count.
C8_Witness ==
    /\ pc = "done"
    /\ HasCeiling
    /\ \E b \in Range(Blocks) :
          CharCount(b.text) # GetSize(fs[b.path].bytes)
    /\ \E i \in 1..Len(console) : console[i].kind = "large"
    /\ file_count >= 2

----------------------------------------------------------------------------
\* The bytes of a file with every undecodable byte taken out.
RECURSIVE WithoutInvalid(_)
WithoutInvalid(bytes) ==
    IF bytes = <<>> THEN <<>>
    ELSE IF bytes[1].k = "bad" THEN WithoutInvalid(Tail(bytes))
    ELSE <<bytes[1]>> \o WithoutInvalid(Tail(bytes))

HasInvalid(bytes) == \E i \in 1..Len(bytes) : bytes[i].k = "bad"

----------------------------------------------------------------------------
(* C10: at most one input file is open at any point of a run, and none is   *)
(* open whenever a loop is about to examine its next candidate or the run   *)
(* has ended: the file of the previous candidate was closed whether its     *)
(* block was completed, its read failed or a write to the output failed.    *)
C10_InputClosedBeforeNext ==
    /\ Cardinality(openFiles) <= 1
    /\ openFiles \subseteq {cand}
    /\ pc \notin {"read", "write", "exit"} => openFiles = {}

\* The loop is back at its head after a candidate whose block an output
\* failure cut short, and after an earlier candidate whose block succeeded.
C10_Witness ==
    /\ pc = ret
    /\ openFiles = {}
    /\ Key(cand) \in wfailed
    /\ console # <<>>
    /\ console[Len(console)] = [kind |-> "error", path |-> Key(cand)]
    /\ \E i \in 1..Len(console) : console[i].kind = "added"

====
